---- MODULE Spec2Model ----
(***************************************************************************)
(* Model of jamanak::Jamanak (include/jamanak.hpp): a start/stop timer     *)
(* that collects measurements ("jams") and renders them as a report.       *)
(*                                                                         *)
(* Strings are sequences of one-character strings.  The rendered report is *)
(* a sequence of tokens: a token is one character of text, one ANSI escape *)
(* sequence, or the en dash the rules are drawn with.                      *)
(* Time points are integer nanosecond counts of the clock; a duration in   *)
(* milliseconds is kept as its nanosecond count (ms = ns / 10^6).          *)
(***************************************************************************)
EXTENDS Integers, Sequences, FiniteSets, TLC

\* ---------------------------------------------------------------- bounds
\* Number of Jam objects the session may allocate (successful start calls).
MaxStarts == 2

\* Labels passed to start(): empty, one character, and a two-character
\* label that contains a line break.
Labels == { <<>>, <<"A">>, <<"b", "\n">> }

\* Titles passed to the constructor: empty, short, and one longer than any
\* label plus any formatted duration of the model.  The two that are not
\* empty have odd lengths, so that the integer divisions in the indentation
\* of the title round.
Titles == { <<>>, <<"T", "i", "m">>,
            <<"C", "o", "u", "n", "t", "i", "n", "g", " ", "D", "u">> }

\* Advances of the clock between two readings, in nanoseconds.  All are
\* even, so no duration is a decimal tie at the fifth decimal of a
\* millisecond (ns % 10 = 5), where the result of the formatting depends on
\* the binary representation of the double.
Steps == { 0, 12345678 }

\* ------------------------------------------------------------- constants
NULL == 0

ANSI_RESET == "ESC[0m"
ANSI_BOLD == "ESC[1m"
ANSI_YELLOW == "ESC[38;2;227;225;127m"
ANSI_GREEN == "ESC[38;2;143;227;125m"
DASH == "EN-DASH"

VARIABLES
    global_context,  \* the title
    heap,            \* the Jam objects alive: id -> Jam
    nextId,          \* id of the next Jam that make_shared allocates
    jams,            \* vector of shared_ptr<Jam>: sequence of ids
    current_jam,     \* shared_ptr<Jam>: an id, or NULL
    jam_state,       \* "idle" or "jamming"
    longest, longest_dur, longest_bc,  \* alignment statistics
    now,             \* last reading of high_resolution_clock
    lastCall,        \* the last call of the caller and what it returned
    openLabel,       \* label the caller passed to the start() still open
    startLabels,     \* labels of the start() calls that returned, in order
    endCount,        \* number of end() calls that returned a Jam
    cleared,         \* clean_jams() has been called
    clearId          \* value of nextId at the last clean_jams(), 1 before any
\* startLabels and endCount observe a session up to its first clean_jams():
\* from then on they are empty and zero.

session == <<global_context, heap, jams, current_jam, jam_state,
             longest, longest_dur, longest_bc>>
caches == <<longest, longest_dur, longest_bc>>
ghost == <<openLabel, startLabels, endCount, cleared, clearId>>
vars == <<global_context, heap, nextId, jams, current_jam, jam_state,
          longest, longest_dur, longest_bc, now, lastCall,
          openLabel, startLabels, endCount, cleared, clearId>>

\* ---------------------------------------------------------------- helpers
\* Variant: the new value stored without taking the maximum.
Max_takes_new(a, b) == b

\* Variant: std::min in the place of std::max.
Max_is_min(a, b) == IF a <= b THEN a ELSE b

\* std::max.
Max(a, b) == IF a >= b THEN a ELSE b

\* struct Jam, as make_shared<Jam>() value-initialises it.
NewJam == [context |-> <<>>, t0 |-> 0, t1 |-> 0, duration_ms |-> 0]

\* A shared_ptr count that drops to zero destroys the Jam: the objects left
\* are those the vector or current_jam still point to (the caller drops the
\* pointer end() returns, as the example program does).
Live(h, js, cur) ==
    [i \in {j \in DOMAIN h : j = cur \/ \E k \in 1..Len(js) : js[k] = j} |-> h[i]]

\* std::string fence(int n, const std::string& f): f repeated n times,
\* nothing when n <= 0.
RECURSIVE fence(_, _)
fence(n, f) == IF n <= 0 THEN <<>> ELSE f \o fence(n - 1, f)

\* Decimal digits of a natural number.
RECURSIVE Digits(_)
Digits(n) ==
    LET d == <<"0", "1", "2", "3", "4", "5", "6", "7", "8", "9">>[(n % 10) + 1]
    IN IF n < 10 THEN <<d>> ELSE Append(Digits(n \div 10), d)

\* The last k decimal digits of n, zero-padded.
RECURSIVE FracDigits(_, _)
FracDigits(n, k) ==
    IF k = 0 THEN <<>>
    ELSE Append(FracDigits(n \div 10, k - 1), Digits(n % 10)[1])

\* ss << std::fixed << std::setprecision(5) << duration_ms, for a duration
\* of ns nanoseconds (ns >= 0): ns / 10^6 rounded to the nearest multiple of
\* 10^-5, i.e. ns / 10 rounded to the nearest integer; then the integer
\* part, '.', and five decimals.  (ns % 10 = 5 does not occur, see Steps;
\* it is rounded to even here.)
Rounded(ns) ==
    LET q == ns \div 10
        r == ns % 10
    IN IF r > 5 \/ (r = 5 /\ q % 2 = 1) THEN q + 1 ELSE q

fixed5(ns) ==
    LET u == Rounded(ns)
    IN Digits(u \div 100000) \o <<".">> \o FracDigits(u % 100000, 5)

\* std::string::find('.'): index of the first '.', or npos (here Len + 1).
RECURSIVE find_dot(_, _)
find_dot(s, i) ==
    IF i > Len(s) THEN Len(s) + 1
    ELSE IF s[i] = "." THEN i
    ELSE find_dot(s, i + 1)

\* Variant: the search for another separator, which is never found.
digits_before_decimal_comma(num) == Len(num)

digits_before_decimal(num) ==
    LET idx == find_dot(num, 1)
    IN IF idx = Len(num) + 1 THEN Len(num) ELSE idx - 1

\* Variant: the subtraction with its operands exchanged.
ms_double_swapped(t0, t1) == t0 - t1

\* t1 - t0 as std::chrono::duration<double, std::milli>, kept in nanoseconds.
ms_double(t0, t1) == t1 - t0

\* How a call came back to the caller: the exception message or "ok", the
\* Jam pointer end() returned, the string to_string() returned.
Returned(op, result, ret, out) ==
    [op |-> op, result |-> result, ret |-> ret, out |-> out]

\* ------------------------------------------------------------------ Init
Init ==
    /\ global_context \in Titles
    /\ heap = <<>>
    /\ nextId = 1
    /\ jams = <<>>
    /\ current_jam = NULL
    /\ jam_state = "idle"
    /\ longest = 0
    /\ longest_dur = 0
    /\ longest_bc = 0
    /\ now = 0
    /\ lastCall = Returned("Jamanak", "ok", NULL, <<>>)
    /\ openLabel = <<>>
    /\ startLabels = <<>>
    /\ endCount = 0
    /\ cleared = FALSE
    /\ clearId = 1

\* --------------------------------------------------------------- start()
\* Variant: start() without the check of jam_state.
start_unguarded(context, d) ==
    /\ nextId <= MaxStarts
    /\ now' = now + d
    /\ current_jam' = nextId
    /\ heap' = Live(heap @@ (nextId :> [NewJam EXCEPT !.context = context,
                                                     !.t0 = now']),
                    jams, nextId)
    /\ nextId' = nextId + 1
    /\ jam_state' = "jamming"
    /\ lastCall' = Returned("start", "ok", NULL, <<>>)
    /\ openLabel' = context
    /\ startLabels' = IF cleared THEN startLabels
                       ELSE Append(startLabels, context)
    /\ UNCHANGED <<global_context, jams, longest, longest_dur,
                   longest_bc, endCount, cleared, clearId>>

\* Variant: start() that already stores the new Jam in the vector.
start_stores(context, d) ==
    IF jam_state = "jamming"
    THEN /\ lastCall' = Returned("start", "already jamming", NULL, <<>>)
         /\ UNCHANGED <<global_context, heap, nextId, jams, current_jam,
                        jam_state, longest, longest_dur, longest_bc, now,
                        openLabel, startLabels, endCount, cleared, clearId>>
    ELSE /\ nextId <= MaxStarts
         /\ now' = now + d
         /\ current_jam' = nextId
         /\ jams' = Append(jams, nextId)
         /\ heap' = Live(heap @@ (nextId :> [NewJam EXCEPT !.context = context,
                                                          !.t0 = now']),
                         jams', nextId)
         /\ nextId' = nextId + 1
         /\ jam_state' = "jamming"
         /\ lastCall' = Returned("start", "ok", NULL, <<>>)
         /\ openLabel' = context
         /\ startLabels' = IF cleared THEN startLabels
                            ELSE Append(startLabels, context)
         /\ UNCHANGED <<global_context, longest, longest_dur,
                        longest_bc, endCount, cleared, clearId>>

\* Variant: start() that assigns its label to the title as well.
start_sets_title(context, d) ==
    IF jam_state = "jamming"
    THEN /\ lastCall' = Returned("start", "already jamming", NULL, <<>>)
         /\ UNCHANGED <<global_context, heap, nextId, jams, current_jam,
                        jam_state, longest, longest_dur, longest_bc, now,
                        openLabel, startLabels, endCount, cleared, clearId>>
    ELSE /\ nextId <= MaxStarts
         /\ now' = now + d
         /\ current_jam' = nextId
         /\ heap' = Live(heap @@ (nextId :> [NewJam EXCEPT !.context = context,
                                                          !.t0 = now']),
                         jams, nextId)
         /\ nextId' = nextId + 1
         /\ jam_state' = "jamming"
         /\ lastCall' = Returned("start", "ok", NULL, <<>>)
         /\ openLabel' = context
         /\ startLabels' = IF cleared THEN startLabels
                            ELSE Append(startLabels, context)
         /\ global_context' = context
         /\ UNCHANGED <<jams, longest, longest_dur,
                        longest_bc, endCount, cleared, clearId>>

start(context, d) ==
    IF jam_state = "jamming"
    THEN /\ lastCall' = Returned("start", "already jamming", NULL, <<>>)
         /\ UNCHANGED <<global_context, heap, nextId, jams, current_jam,
                        jam_state, longest, longest_dur, longest_bc, now,
                        openLabel, startLabels, endCount, cleared, clearId>>
    ELSE /\ nextId <= MaxStarts
         /\ now' = now + d
         /\ current_jam' = nextId
         /\ heap' = Live(heap @@ (nextId :> [NewJam EXCEPT !.context = context,
                                                          !.t0 = now']),
                         jams, nextId)
         /\ nextId' = nextId + 1
         /\ jam_state' = "jamming"
         /\ lastCall' = Returned("start", "ok", NULL, <<>>)
         /\ openLabel' = context
         /\ startLabels' = IF cleared THEN startLabels
                            ELSE Append(startLabels, context)
         /\ UNCHANGED <<global_context, jams, longest, longest_dur,
                        longest_bc, endCount, cleared, clearId>>

\* ----------------------------------------------------------------- end()
\* Variant: end() that returns a null pointer instead of throwing.
end_silent(d) ==
    IF jam_state = "idle" \/ current_jam = NULL
    THEN /\ lastCall' = Returned("end", "ok", NULL, <<>>)
         /\ UNCHANGED <<global_context, heap, nextId, jams, current_jam,
                        jam_state, longest, longest_dur, longest_bc, now,
                        openLabel, startLabels, endCount, cleared, clearId>>
    ELSE LET t1 == now + d
             dur == ms_double(heap[current_jam].t0, t1)
             s == fixed5(dur)
         IN /\ now' = t1
            /\ heap' = [heap EXCEPT ![current_jam].t1 = t1,
                                    ![current_jam].duration_ms = dur]
            /\ jams' = Append(jams, current_jam)
            /\ longest' = Max(longest, Len(heap[current_jam].context))
            /\ longest_dur' = Max(longest_dur, Len(s))
            /\ longest_bc' = Max(longest_bc, digits_before_decimal(s))
            /\ current_jam' = NULL
            /\ jam_state' = "idle"
            /\ lastCall' = Returned("end", "ok", current_jam, <<>>)
            /\ openLabel' = <<>>
            /\ endCount' = IF cleared THEN endCount ELSE endCount + 1
            /\ UNCHANGED <<global_context, nextId, startLabels, cleared,
                           clearId>>

\* Variant: end() that inserts the Jam at the front of the vector.
end_prepends(d) ==
    IF jam_state = "idle" \/ current_jam = NULL
    THEN /\ lastCall' = Returned("end", "jamming not started", NULL, <<>>)
         /\ UNCHANGED <<global_context, heap, nextId, jams, current_jam,
                        jam_state, longest, longest_dur, longest_bc, now,
                        openLabel, startLabels, endCount, cleared, clearId>>
    ELSE LET t1 == now + d
             dur == ms_double(heap[current_jam].t0, t1)
             s == fixed5(dur)
         IN /\ now' = t1
            /\ heap' = [heap EXCEPT ![current_jam].t1 = t1,
                                    ![current_jam].duration_ms = dur]
            /\ jams' = <<current_jam>> \o jams
            /\ longest' = Max(longest, Len(heap[current_jam].context))
            /\ longest_dur' = Max(longest_dur, Len(s))
            /\ longest_bc' = Max(longest_bc, digits_before_decimal(s))
            /\ current_jam' = NULL
            /\ jam_state' = "idle"
            /\ lastCall' = Returned("end", "ok", current_jam, <<>>)
            /\ openLabel' = <<>>
            /\ endCount' = IF cleared THEN endCount ELSE endCount + 1
            /\ UNCHANGED <<global_context, nextId, startLabels, cleared,
                           clearId>>

\* Variant: end() that returns current_jam after resetting it.
end_returns_reset(d) ==
    IF jam_state = "idle" \/ current_jam = NULL
    THEN /\ lastCall' = Returned("end", "jamming not started", NULL, <<>>)
         /\ UNCHANGED <<global_context, heap, nextId, jams, current_jam,
                        jam_state, longest, longest_dur, longest_bc, now,
                        openLabel, startLabels, endCount, cleared, clearId>>
    ELSE LET t1 == now + d
             dur == ms_double(heap[current_jam].t0, t1)
             s == fixed5(dur)
         IN /\ now' = t1
            /\ heap' = [heap EXCEPT ![current_jam].t1 = t1,
                                    ![current_jam].duration_ms = dur]
            /\ jams' = Append(jams, current_jam)
            /\ longest' = Max(longest, Len(heap[current_jam].context))
            /\ longest_dur' = Max(longest_dur, Len(s))
            /\ longest_bc' = Max(longest_bc, digits_before_decimal(s))
            /\ current_jam' = NULL
            /\ jam_state' = "idle"
            /\ lastCall' = Returned("end", "ok", current_jam', <<>>)
            /\ openLabel' = <<>>
            /\ endCount' = IF cleared THEN endCount ELSE endCount + 1
            /\ UNCHANGED <<global_context, nextId, startLabels, cleared,
                           clearId>>

end(d) ==
    IF jam_state = "idle" \/ current_jam = NULL
    THEN /\ lastCall' = Returned("end", "jamming not started", NULL, <<>>)
         /\ UNCHANGED <<global_context, heap, nextId, jams, current_jam,
                        jam_state, longest, longest_dur, longest_bc, now,
                        openLabel, startLabels, endCount, cleared, clearId>>
    ELSE LET t1 == now + d
             dur == ms_double(heap[current_jam].t0, t1)
             s == fixed5(dur)
         IN /\ now' = t1
            /\ heap' = [heap EXCEPT ![current_jam].t1 = t1,
                                    ![current_jam].duration_ms = dur]
            /\ jams' = Append(jams, current_jam)
            /\ longest' = Max(longest, Len(heap[current_jam].context))
            /\ longest_dur' = Max(longest_dur, Len(s))
            /\ longest_bc' = Max(longest_bc, digits_before_decimal(s))
            /\ current_jam' = NULL
            /\ jam_state' = "idle"
            /\ lastCall' = Returned("end", "ok", current_jam, <<>>)
            /\ openLabel' = <<>>
            /\ endCount' = IF cleared THEN endCount ELSE endCount + 1
            /\ UNCHANGED <<global_context, nextId, startLabels, cleared,
                           clearId>>

\* ---------------------------------------------------------- clean_jams()
\* Variant: clean_jams() that also resets current_jam, but not jam_state.
clean_jams_resets_current ==
    /\ jams' = <<>>
    /\ current_jam' = NULL
    /\ heap' = Live(heap, <<>>, NULL)
    /\ lastCall' = Returned("clean_jams", "ok", NULL, <<>>)
    /\ cleared' = TRUE
    /\ clearId' = nextId
    /\ startLabels' = <<>>
    /\ endCount' = 0
    /\ UNCHANGED <<global_context, nextId, jam_state, longest,
                   longest_dur, longest_bc, now, openLabel>>

\* Variant: clean_jams() with the reset of the alignment statistics that the
\* source has as a comment.
clean_jams_resets_stats ==
    /\ jams' = <<>>
    /\ heap' = Live(heap, <<>>, current_jam)
    /\ longest' = 0
    /\ longest_dur' = 0
    /\ longest_bc' = 0
    /\ lastCall' = Returned("clean_jams", "ok", NULL, <<>>)
    /\ cleared' = TRUE
    /\ clearId' = nextId
    /\ startLabels' = <<>>
    /\ endCount' = 0
    /\ UNCHANGED <<global_context, nextId, current_jam, jam_state, now,
                   openLabel>>

clean_jams ==
    /\ jams' = <<>>
    /\ heap' = Live(heap, <<>>, current_jam)
    /\ lastCall' = Returned("clean_jams", "ok", NULL, <<>>)
    /\ cleared' = TRUE
    /\ clearId' = nextId
    /\ startLabels' = <<>>
    /\ endCount' = 0
    /\ UNCHANGED <<global_context, nextId, current_jam, jam_state, longest,
                   longest_dur, longest_bc, now, openLabel>>

\* ------------------------------------------------- get_jams, is_jamming
get_jams == jams

is_jamming == jam_state = "jamming"

\* ------------------------------------------------------------ to_string()
\* Total width of the rules, and the indentation of the title.
\* Variant: the width taken from the Jams alone.
l_size_ignores_title == longest + longest_dur + 13

l_size == Max(longest + longest_dur, Len(global_context)) + 13

\* Variant: the indentation as half of the difference.
sf_size_centered == (l_size - Len(global_context)) \div 2

sf_size == (l_size \div 2) - (Len(global_context) \div 2)

\* The three lines of the title block.
header ==
    <<ANSI_BOLD, ANSI_YELLOW>>
    \o fence(l_size, <<DASH>>) \o <<"\n">>
    \o fence(sf_size, <<" ">>) \o global_context \o <<"\n">>
    \o fence(l_size, <<DASH>>) \o <<"\n">>

\* What one iteration of the loop over jams writes for the Jam j.
\* longest - j_context_size + 2 and longest_bc - digits_before_decimal(s)
\* are computed in std::size_t and cast to int: for operands below 2^31
\* the cast of the wrapped difference is the integer difference.
row(j) ==
    LET s == fixed5(j.duration_ms)
        j_context_size == Len(j.context)
    IN <<ANSI_BOLD, ANSI_YELLOW, "|", "|", " ", ANSI_RESET>>
       \o <<ANSI_BOLD, ANSI_GREEN>> \o j.context \o <<ANSI_RESET>>
       \o fence(longest - j_context_size + 2, <<DASH>>) \o <<":", " ">>
       \o <<ANSI_BOLD, ANSI_GREEN>>
       \o fence(longest_bc - digits_before_decimal(s), <<" ">>)
       \o s \o <<ANSI_RESET>>
       \o <<" ", "m", "s">>
       \o <<ANSI_BOLD, ANSI_YELLOW, " ", "|", "|", ANSI_RESET, "\n">>

\* Variant: the loop over jams running from the last element to the first.
RECURSIVE rows_reversed(_)
rows_reversed(js) ==
    IF js = <<>> THEN <<>>
    ELSE rows_reversed(Tail(js)) \o row(heap[Head(js)])

RECURSIVE rows(_)
rows(js) == IF js = <<>> THEN <<>> ELSE row(heap[Head(js)]) \o rows(Tail(js))

footer ==
    <<ANSI_BOLD, ANSI_YELLOW>> \o fence(l_size, <<DASH>>)
    \o <<ANSI_RESET, "\n">>

to_string_out == header \o rows(jams) \o footer

\* Variant: to_string() that first recomputes longest from the vector.
to_string_recomputes ==
    /\ longest' = IF jams = <<>> THEN 0 ELSE longest
    /\ lastCall' = Returned("to_string", "ok", NULL, to_string_out)
    /\ UNCHANGED <<global_context, heap, nextId, jams, current_jam,
                   jam_state, longest_dur, longest_bc, now,
                   openLabel, startLabels, endCount, cleared, clearId>>

to_string ==
    /\ lastCall' = Returned("to_string", "ok", NULL, to_string_out)
    /\ UNCHANGED <<global_context, heap, nextId, jams, current_jam,
                   jam_state, longest, longest_dur, longest_bc, now,
                   openLabel, startLabels, endCount, cleared, clearId>>

\* ------------------------------------------------------------------ Next
Next ==
    \/ \E context \in Labels, d \in Steps : start(context, d)
    \/ \E d \in Steps : end(d)
    \/ clean_jams
    \/ to_string

Spec == Init /\ [][Next]_vars

\* ============================================================== claims
Last(s) == s[Len(s)]

\* The Jam objects get_jams() gives access to, in order.
records == [i \in 1..Len(jams) |-> heap[jams[i]]]

\* C1: start() while a measurement is running throws "already jamming" and
\* changes nothing: the state stays jamming, current_jam and the Jam it
\* points to, the vector and the three alignment statistics are as before.
C1_StartWhileRunning ==
    [][(lastCall'.op = "start" /\ jam_state = "jamming")
        => /\ lastCall'.result = "already jamming"
           /\ jam_state' = "jamming"
           /\ current_jam' = current_jam
           /\ heap' = heap
           /\ jams' = jams
           /\ caches' = caches]_vars

C1_Witness ==
    /\ lastCall.op = "start"
    /\ lastCall.result = "already jamming"
    /\ jam_state = "jamming"
    /\ Len(jams) >= 1

\* C2: end() while no measurement is running throws "jamming not started"
\* and changes nothing: the state stays idle, current_jam stays null, the
\* vector and the three alignment statistics are as before.
C2_EndWhileIdle ==
    [][(lastCall'.op = "end" /\ jam_state = "idle")
        => /\ lastCall'.result = "jamming not started"
           /\ jam_state' = "idle"
           /\ current_jam' = NULL
           /\ current_jam = NULL
           /\ heap' = heap
           /\ jams' = jams
           /\ caches' = caches]_vars

C2_Witness ==
    /\ lastCall.op = "end"
    /\ lastCall.result = "jamming not started"
    /\ jam_state = "idle"
    /\ endCount >= 1

\* C3: after clean_jams(), called in either state, the vector is empty,
\* current_jam is null and is_jamming() is false.
C3_ClearResets ==
    lastCall.op = "clean_jams"
        => jams = <<>> /\ current_jam = NULL /\ ~is_jamming

\* C4: as long as clean_jams() was never called, the vector has one element
\* per end() that returned, and its i-th element carries the label of the
\* i-th start() that returned.
C4_RecordsFollowPairs ==
    ~cleared =>
        /\ Len(get_jams) = endCount
        /\ \A i \in 1..Len(get_jams) : records[i].context = startLabels[i]

C4_Witness ==
    /\ ~cleared
    /\ endCount >= 2
    /\ jam_state = "idle"
    /\ startLabels[1] = <<>>
    /\ startLabels[2] = <<>>

\* C5: current_jam is non-null exactly when the state is jamming.
C5_ActiveIffRunning == (current_jam # NULL) <=> (jam_state = "jamming")

C5_Witness ==
    /\ jam_state = "jamming"
    /\ current_jam # NULL
    /\ cleared
    /\ lastCall.op = "to_string"

\* C6: end() while jamming returns the Jam that was running, appended as
\* the new last element of the vector and carrying the label of the start()
\* that opened it; current_jam becomes null, the state idle, and the
\* elements the vector had before are unchanged.
C6_EndAppends ==
    [][(lastCall'.op = "end" /\ jam_state = "jamming")
        => /\ lastCall'.result = "ok"
           /\ Len(jams') = Len(jams) + 1
           /\ lastCall'.ret = Last(jams')
           /\ lastCall'.ret = current_jam
           /\ heap'[lastCall'.ret].context = openLabel
           /\ current_jam' = NULL
           /\ jam_state' = "idle"
           /\ \A i \in 1..Len(jams) :
                 jams'[i] = jams[i] /\ heap'[jams[i]] = heap[jams[i]]]_vars

C6_Witness ==
    /\ lastCall.op = "end"
    /\ lastCall.result = "ok"
    /\ Len(jams) >= 2
    /\ lastCall.ret = Last(jams)

\* C7: start(label) while idle sets the state to jamming and makes
\* current_jam a Jam with that label, leaving the vector and the three
\* alignment statistics as they were; and the Jam current_jam points to is
\* never an element of the vector.
C7_StartInstalls ==
    /\ [][(lastCall'.op = "start" /\ jam_state = "idle")
           => /\ lastCall'.result = "ok"
              /\ jam_state' = "jamming"
              /\ current_jam' # NULL
              /\ heap'[current_jam'].context = openLabel'
              /\ jams' = jams
              /\ \A i \in 1..Len(jams) : heap'[jams[i]] = heap[jams[i]]
              /\ caches' = caches]_vars
    /\ [](current_jam # NULL => \A i \in 1..Len(jams) : jams[i] # current_jam)

C7_Witness ==
    /\ lastCall.op = "start"
    /\ lastCall.result = "ok"
    /\ jam_state = "jamming"
    /\ Len(jams) >= 1
    /\ heap[current_jam].context = heap[jams[1]].context

\* C8: to_string() returns normally in either state and changes nothing of
\* the session, so the string it returned is the string a further call
\* returns.
C8_RenderPure ==
    /\ [][lastCall'.op = "to_string"
           => lastCall'.result = "ok" /\ session' = session]_vars
    /\ [](lastCall.op = "to_string" => lastCall.out = to_string_out)

C8_Witness ==
    /\ lastCall.op = "to_string"
    /\ jam_state = "jamming"
    /\ Len(jams) >= 1
    /\ Len(lastCall.out) > 0

\* The text of a rendered report: its tokens without the escape sequences.
IsAnsi(t) == t \in {ANSI_RESET, ANSI_BOLD, ANSI_YELLOW, ANSI_GREEN}

Text(out) == SelectSeq(out, LAMBDA t : ~IsAnsi(t))

\* The lines of a text, each without its line break.
RECURSIVE NextBreak(_, _)
NextBreak(s, i) ==
    IF i > Len(s) \/ s[i] = "\n" THEN i ELSE NextBreak(s, i + 1)

RECURSIVE SplitLines(_)
SplitLines(s) ==
    IF s = <<>> THEN <<>>
    ELSE LET k == NextBreak(s, 1)
         IN <<SubSeq(s, 1, k - 1)>> \o SplitLines(SubSeq(s, k + 1, Len(s)))

\* The lines between the three lines of the title block and the closing rule.
BodyLines(out) ==
    LET ls == SplitLines(Text(out))
    IN SubSeq(ls, 4, Len(ls) - 1)

Contains(hay, needle) ==
    \E i \in 0..(Len(hay) - Len(needle)) :
        SubSeq(hay, i + 1, i + Len(needle)) = needle

HasBreak(label) == \E i \in 1..Len(label) : label[i] = "\n"

\* s is a decimal numeral with exactly five decimals that is the duration
\* of ns nanoseconds in milliseconds, rounded to the fifth decimal.
DigitValue(c) ==
    CHOOSE v \in 0..9 :
        <<"0", "1", "2", "3", "4", "5", "6", "7", "8", "9">>[v + 1] = c

RECURSIVE NumeralValue(_)
NumeralValue(s) ==
    IF s = <<>> THEN 0
    ELSE IF Last(s) = "." THEN NumeralValue(SubSeq(s, 1, Len(s) - 1))
    ELSE 10 * NumeralValue(SubSeq(s, 1, Len(s) - 1)) + DigitValue(Last(s))

IsFiveDecimalsOf(s, ns) ==
    /\ Len(s) >= 7
    /\ s[Len(s) - 5] = "."
    /\ \A i \in 1..Len(s) :
          i # Len(s) - 5
              => s[i] \in {"0", "1", "2", "3", "4", "5", "6", "7", "8", "9"}
    /\ 10 * NumeralValue(s) - ns <= 5
    /\ ns - 10 * NumeralValue(s) <= 5

\* The i-th line of the body shows the i-th Jam of the vector.
LineShows(line, j) ==
    /\ Contains(line, j.context)
    /\ \E a \in 1..Len(line), b \in 1..Len(line) :
          /\ a <= b
          /\ IsFiveDecimalsOf(SubSeq(line, a, b), j.duration_ms)
          /\ SubSeq(line, b + 1, b + 3) = <<" ", "m", "s">>
          /\ (a > 1 => line[a - 1] \notin
                {"0", "1", "2", "3", "4", "5", "6", "7", "8", "9"})

\* C9: the body of the string to_string() returned has exactly one line per
\* element of the vector, in the same order, each containing the label and
\* the duration with five decimals followed by " ms".
C9_OneLinePerRecord ==
    lastCall.op = "to_string" =>
        LET body == BodyLines(lastCall.out)
        IN /\ Len(body) = Len(jams)
           /\ \A i \in 1..Len(jams) : LineShows(body[i], records[i])

\* C9 as amended: the same, for a vector none of whose labels contains a
\* line break.
C9_OneLinePerRecordNoBreak ==
    (lastCall.op = "to_string"
        /\ \A i \in 1..Len(jams) : ~HasBreak(records[i].context)) =>
        LET body == BodyLines(lastCall.out)
        IN /\ Len(body) = Len(jams)
           /\ \A i \in 1..Len(jams) : LineShows(body[i], records[i])

C9_Witness ==
    /\ lastCall.op = "to_string"
    /\ Len(jams) >= 2
    /\ \A i \in 1..Len(jams) : ~HasBreak(records[i].context)
    /\ records[1].context # records[2].context
    /\ records[1].duration_ms # records[2].duration_ms

\* C10: with a clock that never goes back, every Jam of the vector has
\* t1 >= t0 and a duration that is t1 - t0, hence not negative; t0 and t1
\* are readings of the clock.
C10_DurationsNonNegative ==
    \A i \in 1..Len(jams) :
        /\ records[i].t1 >= records[i].t0
        /\ records[i].duration_ms >= 0
        /\ records[i].duration_ms = records[i].t1 - records[i].t0
        /\ records[i].t1 <= now

C10_Witness ==
    /\ Len(jams) >= 2
    /\ records[1].duration_ms > 0
    /\ records[2].duration_ms = 0
    /\ records[2].t0 > records[1].t1

\* C11: a step that is not a clean_jams() call - a start(), an end() or a
\* to_string(), returning or throwing - decreases none of longest,
\* longest_dur and longest_bc.
C11_CachesMonotone ==
    [][lastCall'.op # "clean_jams"
        => /\ longest' >= longest
           /\ longest_dur' >= longest_dur
           /\ longest_bc' >= longest_bc]_vars

\* Two Jams completed without a clean_jams(), the second with the shorter
\* label and the shorter formatted duration.
C11_Witness ==
    /\ ~cleared
    /\ lastCall.op = "end"
    /\ Len(jams) = 2
    /\ Len(records[2].context) < Len(records[1].context)
    /\ Len(fixed5(records[2].duration_ms)) < Len(fixed5(records[1].duration_ms))
    /\ longest = Len(records[1].context)

\* A rule: w en dashes and nothing else.
IsRule(line, w) == Len(line) = w /\ \A i \in 1..Len(line) : line[i] = DASH

\* C12: in the string to_string() returned, the first, the third and the
\* last line are rules of the same width
\* W = max(longest + longest_dur, length of the title) + 13, and the second
\* line is the title after W / 2 - (length of the title) / 2 spaces.
C12_RuleWidth ==
    lastCall.op = "to_string" =>
        LET ls == SplitLines(Text(lastCall.out))
            n == Len(global_context)
            W == (IF longest + longest_dur >= n
                  THEN longest + longest_dur ELSE n) + 13
        IN /\ Len(ls) >= 4
           /\ IsRule(ls[1], W)
           /\ IsRule(ls[3], W)
           /\ IsRule(ls[Len(ls)], W)
           /\ ls[2] = [i \in 1..((W \div 2) - (n \div 2)) |-> " "]
                      \o global_context

\* A report whose width comes from the Jams, under a title of odd length,
\* with W even.
C12_Witness ==
    /\ lastCall.op = "to_string"
    /\ Len(jams) >= 1
    /\ Len(global_context) % 2 = 1
    /\ longest + longest_dur > Len(global_context)
    /\ (longest + longest_dur) % 2 = 1

\* The largest element of a sequence of naturals, 0 for the empty one.
RECURSIVE SeqMax(_)
SeqMax(q) ==
    IF q = <<>> THEN 0
    ELSE LET m == SeqMax(Tail(q))
         IN IF Head(q) >= m THEN Head(q) ELSE m

\* Number of characters of a numeral before its decimal point.
PointAt(numeral) ==
    CHOOSE k \in 0..Len(numeral) :
        /\ k = Len(numeral) \/ numeral[k + 1] = "."
        /\ \A m \in 1..k : numeral[m] # "."

\* C13: as long as clean_jams() was never called, longest is the largest
\* label length over the vector, longest_dur the largest length of a
\* formatted duration and longest_bc the largest number of characters
\* before the decimal point; all three are 0 for the empty vector.
C13_CachesAreMaxima ==
    ~cleared =>
        /\ longest = SeqMax([i \in 1..Len(jams) |-> Len(records[i].context)])
        /\ longest_dur =
             SeqMax([i \in 1..Len(jams) |-> Len(fixed5(records[i].duration_ms))])
        /\ longest_bc =
             SeqMax([i \in 1..Len(jams) |->
                        PointAt(fixed5(records[i].duration_ms))])

\* The longest label and the longest duration belong to different Jams.
C13_Witness ==
    /\ ~cleared
    /\ Len(jams) = 2
    /\ Len(records[1].context) > Len(records[2].context)
    /\ records[1].duration_ms < records[2].duration_ms
    /\ longest_bc = 2
    /\ longest = 2

\* C14: every Jam of the vector, also one completed after a clean_jams(),
\* has a label no longer than longest and no more characters before the
\* decimal point than longest_bc: the dash fill longest - size + 2 of its
\* row is at least 2 and the padding longest_bc - digits of its duration is
\* not negative.
C14_RowWidthsInRange ==
    \A i \in 1..Len(jams) :
        LET size == Len(records[i].context)
            digits == PointAt(fixed5(records[i].duration_ms))
        IN /\ size <= longest
           /\ digits <= longest_bc
           /\ longest - size + 2 >= 2
           /\ longest_bc - digits >= 0

\* A Jam completed after a clean_jams(), narrower than the statistics left
\* by the Jams completed before it.
C14_Witness ==
    /\ cleared
    /\ Len(jams) = 1
    /\ jams[1] >= clearId
    /\ Len(records[1].context) < longest
    /\ PointAt(fixed5(records[1].duration_ms)) < longest_bc

\* C15: the vector only ever holds Jams whose start() was called after the
\* last clean_jams() (a Jam that was running at the clean_jams() is
\* dropped); an end() called right after a clean_jams() throws "jamming not
\* started", and a start() called right after a clean_jams() returns.
C15_ClearDiscardsRunning ==
    [][/\ \A i \in 1..Len(jams') : jams'[i] >= clearId'
       /\ (lastCall.op = "clean_jams" /\ lastCall'.op = "end")
             => lastCall'.result = "jamming not started"
       /\ (lastCall.op = "clean_jams" /\ lastCall'.op = "start")
             => lastCall'.result = "ok"]_vars

\* C16: clean_jams() leaves longest, longest_dur and longest_bc as they
\* were, so no step of the session decreases any of them, nor the width of
\* the rules that to_string() draws.
C16_ClearKeepsCaches ==
    [][/\ lastCall'.op = "clean_jams" => caches' = caches
       /\ longest' >= longest
       /\ longest_dur' >= longest_dur
       /\ longest_bc' >= longest_bc
       /\ l_size' >= l_size]_vars

\* A report of the empty vector after a clean_jams(), as wide as the Jams
\* completed before the clean_jams() made it.
C16_Witness ==
    /\ cleared
    /\ lastCall.op = "to_string"
    /\ jams = <<>>
    /\ longest + longest_dur > Len(global_context)
    /\ IsRule(SplitLines(Text(lastCall.out))[1], longest + longest_dur + 13)

\* C17: the indentation of the title that to_string() computes is not
\* negative, the width of the rules being at least the length of the title
\* plus 13; and while the vector is empty it is
\* (length + 13) / 2 - length / 2.
C17_TitlePadding ==
    LET n == Len(global_context)
    IN /\ sf_size >= 0
       /\ l_size >= n + 13
       /\ jams = <<>> => sf_size = ((n + 13) \div 2) - (n \div 2)

\* C17 as amended: the same, the value (length + 13) / 2 - length / 2 being
\* that of a session in which no Jam has been completed yet, longest and
\* longest_dur still being 0.
C17_TitlePaddingFresh ==
    LET n == Len(global_context)
    IN /\ sf_size >= 0
       /\ l_size >= n + 13
       /\ (longest = 0 /\ longest_dur = 0)
             => sf_size = ((n + 13) \div 2) - (n \div 2)

\* A report under a title of odd length before any Jam is completed.
C17_Witness ==
    /\ lastCall.op = "to_string"
    /\ longest = 0
    /\ longest_dur = 0
    /\ jam_state = "jamming"
    /\ Len(global_context) = 11
    /\ SplitLines(Text(lastCall.out))[2]
          = <<" ", " ", " ", " ", " ", " ", " ">> \o global_context

\* C18: no call changes the title given to the constructor; and the
\* session the constructor returns has an empty vector, a null current_jam,
\* the state idle and the three alignment statistics 0.
C18_TitleFixedFreshEmpty ==
    /\ [][global_context' = global_context]_vars
    /\ [](lastCall.op = "Jamanak"
            => /\ global_context \in Titles
               /\ jams = <<>>
               /\ current_jam = NULL
               /\ jam_state = "idle"
               /\ ~is_jamming
               /\ longest = 0
               /\ longest_dur = 0
               /\ longest_bc = 0)

\* A session with a title that has seen start(), end(), clean_jams() and
\* to_string().
C18_Witness ==
    /\ global_context # <<>>
    /\ cleared
    /\ Len(jams) >= 1
    /\ jams[1] >= clearId
    /\ lastCall.op = "to_string"

====
